---- MODULE Spec2Model ----
(***************************************************************************)
(* Vehicle telemetry pipeline: the in-memory DataStore (current snapshot,  *)
(* four rolling windows, alert buffer, mirrored simulation status), the    *)
(* asyncio VehicleSimulator (start / stop / tick loop) and the rule-based  *)
(* HealthAnalyzer.                                                         *)
(*                                                                         *)
(* Units.  Wall-clock time is in whole seconds.  Telemetry values are in   *)
(* tenths of their unit (the simulator rounds every field to one decimal), *)
(* the simulator's internal physical state is in hundredths.               *)
(*                                                                         *)
(* Scheduling.  Everything runs on one asyncio event loop: a coroutine     *)
(* runs without interruption from one await to the next, so each action    *)
(* below is the code between two awaits.                                   *)
(***************************************************************************)
EXTENDS Integers, Sequences, FiniteSets, TLC

VARIABLES
    now,                \* wall clock, datetime.utcnow(), whole seconds
    telemetry,          \* DataStore.telemetry: the current snapshot
    alerts,             \* DataStore.alerts
    simulation,         \* DataStore.simulation: mirrored SimulationStatus
    battery_history,    \* DataStore.battery_history (age window)
    speed_history,      \* DataStore.speed_history (age window)
    tire_history,       \* DataStore.tire_history (age window)
    telemetry_history,  \* DataStore.telemetry_history (count window)
    vehicle_variant,    \* DataStore.vehicle_variant
    _running,           \* VehicleSimulator._running
    _tick_count,        \* VehicleSimulator._tick_count
    _variant,           \* VehicleSimulator._variant
    _task,              \* VehicleSimulator._task: index into tasks, 0 for None
    phys,               \* VehicleSimulator's physical state variables
    tasks,              \* every asyncio task created for _simulation_loop
    stops,              \* stop() calls suspended at "await self._task"
    ret,                \* what the last start() / stop() call returned
    accepted,           \* history: alerts appended since the buffer was last emptied
    n_updates,          \* history: update_telemetry calls since construction or reset
    n_hydrated,         \* history: rows loaded from the database at construction
    run_ticks,          \* history: ticks performed since the last effective start()
    telemetry_log,      \* number of rows in the database table telemetry_log
    alert_log,          \* number of rows written to the database table alerts
    escaped,            \* an exception has left a DataStore call
    budget              \* how many environment calls of each kind have been made

window_vars == <<battery_history, speed_history, tire_history, telemetry_history>>
store_vars == <<telemetry, alerts, simulation, window_vars, vehicle_variant>>
sim_vars == <<_running, _tick_count, _variant, _task, phys, tasks, stops>>
hist_vars == <<accepted, n_updates, n_hydrated, run_ticks>>
persist_vars == <<telemetry_log, alert_log, escaped>>
vars == <<now, store_vars, sim_vars, ret, hist_vars, persist_vars, budget>>

----------------------------------------------------------------------------
(* Program constants *)

HistoryCap == 300
WindowAge == 300
AlertCap == 100
DedupLookback == 20
DedupWindow == 10
LoadLimit == 300

\* VehicleSimulator._generate_telemetry, Hybrid branch, in hundredths of a
\* percent: the floor, the largest per-tick drain and the largest burst
HybridFloor == 1500
HybridMaxDrain == 8
HybridMaxDrop == 400

(* Bounds of the model *)

MaxTasks == 2
MaxTicks == 2
MaxEnv == 1
MaxRunTicks == 3
MaxRunEnv == 1
FewRows == 2
MaxFill == 24
MaxProbe == 1
MaxCapFill == 103
MaxClears == 1
MaxLongTicks == 350
MaxPersistTicks == 2
MaxPersistEnv == 1
MaxTireFeeds == 2
MaxSpeedFeeds == 11
MaxBatteryEnv == 5
MaxVariantTicks == 10
MaxEarly == 1
MaxClimb == 80
MaxRangeTicks == 88
MaxTrendEnv == 12
MaxRuleTicks == 3
MaxRuleEnv == 1
MaxQuiet == 54
MaxLiveTicks == 60
MaxIceTicks == 3
MaxIceEnv == 1

----------------------------------------------------------------------------
(* Python list helpers *)

Max(a, b) == IF a >= b THEN a ELSE b
Min(a, b) == IF a <= b THEN a ELSE b
Abs(x) == IF x >= 0 THEN x ELSE -x

\* s[-n:]  (n = 0 gives s[0:], the whole list; n < 0 gives s[|n|:])
TailSlice(s, n) ==
    IF n = 0 THEN s
    ELSE IF n > 0 THEN SubSeq(s, Max(1, Len(s) - n + 1), Len(s))
    ELSE SubSeq(s, Min(-n, Len(s)) + 1, Len(s))

\* list(reversed(s))
Reversed(s) == [i \in 1..Len(s) |-> s[Len(s) + 1 - i]]

----------------------------------------------------------------------------
(* DataStore: alerts *)

IsNearDuplicate_Inclusive(existing, alert) ==
    /\ existing.alert_type = alert.alert_type
    /\ existing.signal = alert.signal
    /\ Abs(existing.timestamp - alert.timestamp) <= DedupWindow

\* the condition of the dedup loop for one existing alert
IsNearDuplicate(existing, alert) ==
    /\ existing.alert_type = alert.alert_type
    /\ existing.signal = alert.signal
    /\ Abs(existing.timestamp - alert.timestamp) < DedupWindow

\* does the loop over self.alerts[-20:] hit its early return?
DedupHit(buf, alert) ==
    LET recent == TailSlice(buf, DedupLookback)
    IN  \E i \in 1..Len(recent) : IsNearDuplicate(recent[i], alert)

add_alert_NoEviction(buf, alert) ==
    IF DedupHit(buf, alert) THEN buf ELSE Append(buf, alert)

\* DataStore.add_alert as a function of the buffer
add_alert(buf, alert) ==
    IF DedupHit(buf, alert) THEN buf
    ELSE LET appended == Append(buf, alert)
         IN  IF Len(appended) > AlertCap THEN TailSlice(appended, AlertCap)
             ELSE appended

\* DataStore.get_alerts
get_alerts(buf, limit) == Reversed(TailSlice(buf, limit))

\* add_alert for each alert of a list, in order
RECURSIVE add_alerts(_, _)
add_alerts(buf, new_alerts) ==
    IF new_alerts = <<>> THEN buf
    ELSE add_alerts(add_alert(buf, Head(new_alerts)), Tail(new_alerts))

\* the history variable's view of the same calls
RECURSIVE accept_alerts(_, _, _)
accept_alerts(acc, buf, new_alerts) ==
    IF new_alerts = <<>> THEN acc
    ELSE LET a == Head(new_alerts)
         IN  accept_alerts(IF DedupHit(buf, a) THEN acc ELSE Append(acc, a),
                           add_alert(buf, a), Tail(new_alerts))

----------------------------------------------------------------------------
(* Telemetry values *)

\* round(x, 1): hundredths to the nearest tenth
Round1(h) == IF h >= 0 THEN (h + 5) \div 10 ELSE -((-h + 5) \div 10)

\* DataStore._get_mock_telemetry; the fields it does not pass take the
\* defaults of the VehicleTelemetry model
mock_telemetry(t) ==
    [ timestamp |-> t,
      speed |-> 600,
      battery |-> [soc |-> 850, voltage |-> 3950, temperature |-> 280,
                   health_status |-> "Good"],
      tires |-> [front_left |-> 320, front_right |-> 315,
                 rear_left |-> 318, rear_right |-> 322],
      drivetrain |-> [throttle_position |-> 0, brake_position |-> 0,
                      gear_position |-> "P", steering_angle |-> 0],
      ev_status |-> [ev_range |-> 3000, charging |-> FALSE, regen_braking |-> FALSE],
      gps |-> [latitude |-> 12971600, longitude |-> 77594600],
      odometer |-> 152345,
      engine_status |-> "running",
      vehicle_variant |-> "EV" ]

\* SimulationStatus(...) with the model's defaults for what is not passed
SimulationStatus(running, tick_count, start_time, message) ==
    [running |-> running, tick_count |-> tick_count,
     start_time |-> start_time, message |-> message]

\* Optional values: None is the empty tuple, a value v is <<v>>
NoneValue == <<>>
Some(v) == <<v>>
DefaultSimulationStatus == SimulationStatus(FALSE, 0, NoneValue, <<>>)

----------------------------------------------------------------------------
(* DataStore: windows *)

AgeFilter_KeepAll(window, t) == window

\* [h for h in window if h["timestamp"] > now - 300]
AgeFilter(window, t) ==
    SelectSeq(window, LAMBDA h : h.timestamp > t - WindowAge)

CountTrim_KeepOldest(window) ==
    IF Len(window) > HistoryCap THEN SubSeq(window, 1, HistoryCap) ELSE window

\* if len(self.telemetry_history) > 300: keep [-300:]
CountTrim(window) ==
    IF Len(window) > HistoryCap THEN TailSlice(window, HistoryCap) ELSE window

BatterySample(tel, t) == [timestamp |-> t, soc |-> tel.battery.soc]
SpeedSample(tel, t) == [timestamp |-> t, speed |-> tel.speed]
TireSample(tel, t) ==
    [timestamp |-> t,
     front_left |-> tel.tires.front_left, front_right |-> tel.tires.front_right,
     rear_left |-> tel.tires.rear_left, rear_right |-> tel.tires.rear_right]
HistoryRecord(tel) ==
    [timestamp |-> tel.timestamp,
     speed |-> tel.speed,
     battery_soc |-> tel.battery.soc,
     battery_temp |-> tel.battery.temperature,
     tire_fl |-> tel.tires.front_left, tire_fr |-> tel.tires.front_right,
     tire_rl |-> tel.tires.rear_left, tire_rr |-> tel.tires.rear_right,
     throttle |-> tel.drivetrain.throttle_position,
     brake |-> tel.drivetrain.brake_position,
     ev_range |-> tel.ev_status.ev_range]

update_telemetry_SnapshotOnly(tel, t) ==
    /\ telemetry' = tel
    /\ UNCHANGED window_vars

\* DataStore.update_telemetry(telemetry), called at wall-clock time t
update_telemetry(tel, t) ==
    /\ telemetry' = tel
    /\ battery_history' = AgeFilter(Append(battery_history, BatterySample(tel, t)), t)
    /\ speed_history' = AgeFilter(Append(speed_history, SpeedSample(tel, t)), t)
    /\ tire_history' = AgeFilter(Append(tire_history, TireSample(tel, t)), t)
    /\ telemetry_history' = CountTrim(Append(telemetry_history, HistoryRecord(tel)))

\* DataStore.get_telemetry_history
get_telemetry_history(window, limit) == TailSlice(window, limit)

\* PersistenceManager.load_telemetry_history: the last `limit` rows of
\* telemetry_log, oldest first.  Row i of p rows was saved i - p - 1 seconds
\* before this process started (a row is written by each update_telemetry,
\* in update order, with the columns save_telemetry fills).
PersistedRow(i, p) ==
    [id |-> i, timestamp |-> i - p - 1, speed |-> 600, battery_soc |-> 850,
     battery_voltage |-> 0, battery_temp |-> 280,
     tire_fl |-> 320, tire_fr |-> 315, tire_rl |-> 318, tire_rr |-> 322,
     throttle |-> 0, brake |-> 0, ev_range |-> 3000,
     engine_status |-> "", vehicle_variant |-> "EV", created_at |-> i - p - 1]
load_telemetry_history(p, limit) ==
    LET rows == [i \in 1..p |-> PersistedRow(i, p)]
    IN  TailSlice(rows, limit)

\* how many rows the database may hold when the process starts: none, a
\* few, or at least as many as are loaded
PersistedSizes == {0, FewRows, HistoryCap - 1, HistoryCap}

----------------------------------------------------------------------------
(* HealthAnalyzer.  Thresholds are in tenths, like the telemetry. *)

TirePressureMin == 250
BatteryDropMax == 50
HighSpeedMin == 1000
HighSpeedSamples == 10
HarshBrakeMin == 900
HarshThrottleMin == 900
HarshAccelSamples == 5
EvRangeMin == 300

AlertModel(alert_type, severity, signal, value, timestamp) ==
    [alert_type |-> alert_type, severity |-> severity, signal |-> signal,
     value |-> value, timestamp |-> timestamp]

TireAlert_AtOrBelow(tel, signal_id, pressure) ==
    IF pressure <= TirePressureMin
    THEN <<AlertModel("tire_pressure_low", "critical", signal_id, pressure, tel.timestamp)>>
    ELSE <<>>

\* one alert per tire below the threshold, in tire_map order
TireAlert(tel, signal_id, pressure) ==
    IF pressure < TirePressureMin
    THEN <<AlertModel("tire_pressure_low", "critical", signal_id, pressure, tel.timestamp)>>
    ELSE <<>>
_check_tire_pressure(tel) ==
    TireAlert(tel, "tire_pressure_fl", tel.tires.front_left)
    \o TireAlert(tel, "tire_pressure_fr", tel.tires.front_right)
    \o TireAlert(tel, "tire_pressure_rl", tel.tires.rear_left)
    \o TireAlert(tel, "tire_pressure_rr", tel.tires.rear_right)

_check_battery_degradation_FromPrevious(tel, history) ==
    IF Len(history) < 2 THEN <<>>
    ELSE IF history[Len(history) - 1].soc - tel.battery.soc > BatteryDropMax
    THEN <<AlertModel("battery_degradation", "critical", "battery_soc",
                      tel.battery.soc, tel.timestamp)>>
    ELSE <<>>

_check_battery_degradation(tel, history) ==
    IF Len(history) < 2 THEN <<>>
    ELSE IF history[1].soc - tel.battery.soc > BatteryDropMax
    THEN <<AlertModel("battery_degradation", "critical", "battery_soc",
                      tel.battery.soc, tel.timestamp)>>
    ELSE <<>>

_check_high_speed_Nine(tel, history) ==
    IF Len(history) < HighSpeedSamples - 1 THEN <<>>
    ELSE LET recent == TailSlice(history, HighSpeedSamples - 1)
         IN  IF \A i \in 1..Len(recent) : recent[i].speed > HighSpeedMin
             THEN <<AlertModel("high_speed_stress", "warning", "speed",
                               tel.speed, tel.timestamp)>>
             ELSE <<>>

_check_high_speed(tel, history) ==
    IF Len(history) < HighSpeedSamples THEN <<>>
    ELSE LET recent == TailSlice(history, HighSpeedSamples)
         IN  IF \A i \in 1..Len(recent) : recent[i].speed > HighSpeedMin
             THEN <<AlertModel("high_speed_stress", "warning", "speed",
                               tel.speed, tel.timestamp)>>
             ELSE <<>>

_check_harsh_braking(tel) ==
    IF tel.drivetrain.brake_position > HarshBrakeMin
    THEN <<AlertModel("harsh_braking", "warning", "brake_position",
                      tel.drivetrain.brake_position, tel.timestamp)>>
    ELSE <<>>

_check_harsh_acceleration(tel, history) ==
    IF tel.drivetrain.throttle_position > HarshThrottleMin
       /\ Len(history) >= HarshAccelSamples
    THEN <<AlertModel("harsh_acceleration", "warning", "throttle_position",
                      tel.drivetrain.throttle_position, tel.timestamp)>>
    ELSE <<>>

_check_ev_range_Positive(tel) ==
    IF 0 < tel.ev_status.ev_range /\ tel.ev_status.ev_range < EvRangeMin
    THEN <<AlertModel("low_ev_range", "warning", "ev_range",
                      tel.ev_status.ev_range, tel.timestamp)>>
    ELSE <<>>

_check_ev_range(tel) ==
    IF tel.ev_status.ev_range < EvRangeMin
    THEN <<AlertModel("low_ev_range", "warning", "ev_range",
                      tel.ev_status.ev_range, tel.timestamp)>>
    ELSE <<>>

analyze_TiresFirst(tel, batt_hist, spd_hist) ==
    IF _check_tire_pressure(tel) # <<>> THEN _check_tire_pressure(tel)
    ELSE _check_battery_degradation(tel, batt_hist)
         \o _check_high_speed(tel, spd_hist)
         \o _check_harsh_braking(tel)
         \o _check_harsh_acceleration(tel, spd_hist)
         \o _check_ev_range(tel)

\* HealthAnalyzer.analyze(telemetry, store): the store's battery and speed
\* windows are read as they are when analyze runs
analyze(tel, batt_hist, spd_hist) ==
    _check_tire_pressure(tel)
    \o _check_battery_degradation(tel, batt_hist)
    \o _check_high_speed(tel, spd_hist)
    \o _check_harsh_braking(tel)
    \o _check_harsh_acceleration(tel, spd_hist)
    \o _check_ev_range(tel)

----------------------------------------------------------------------------
(* VehicleSimulator: physical state and _generate_telemetry.               *)
(* Every random draw of one tick is a field of the record c; the action    *)
(* that runs a tick picks c from a set of draws.                           *)

Clamp_LowerOnly(lo, hi, x) == Max(lo, x)

Clamp(lo, hi, x) == Max(lo, Min(hi, x))

\* x * num / den, truncated toward zero
Scale(x, num, den) ==
    IF x >= 0 THEN (x * num) \div den ELSE -(((-x) * num) \div den)

\* VehicleSimulator.__init__: the state variables, in hundredths
\* (odometer in 1e-4 km, gps in 1e-6 degrees, heading in 1e-2 rad)
InitialPhys ==
    [speed |-> 0, battery_soc |-> 9500, battery_voltage |-> 40000,
     battery_temp |-> 2500,
     tire_fl |-> 3200, tire_fr |-> 3150, tire_rl |-> 3180, tire_rr |-> 3220,
     odometer |-> 150000000, speed_direction |-> 1, fuel_level |-> 10000,
     throttle |-> 0, brake |-> 0, gear |-> "P", steering |-> 0,
     ev_range |-> 35000, gps_lat |-> 12971600, gps_lon |-> 77594600,
     gps_heading |-> 0]

GenSpeed_ShortHold(ph, tick, c) ==
    LET dir == IF c.flip THEN -ph.speed_direction ELSE ph.speed_direction
        speed_delta == c.speed_mag * dir
        walked == Max(0, Min(14000, ph.speed + speed_delta))
        held == tick % 50 < 9 /\ tick > 20
    IN  [dir |-> dir, speed_delta |-> speed_delta,
         speed |-> IF held THEN c.hold_speed ELSE walked]

\* lines 170-179: speed
GenSpeed(ph, tick, c) ==
    LET dir == IF c.flip THEN -ph.speed_direction ELSE ph.speed_direction
        speed_delta == c.speed_mag * dir
        walked == Max(0, Min(14000, ph.speed + speed_delta))
        held == tick % 50 < 15 /\ tick > 20
    IN  [dir |-> dir, speed_delta |-> speed_delta,
         speed |-> IF held THEN c.hold_speed ELSE walked]

\* lines 181-192: throttle and brake
GenPedals(speed_delta, c) ==
    LET thr == IF speed_delta > 0
               THEN Min(10000, Abs(speed_delta) * 15 + c.throttle_jitter) ELSE 0
        brk == IF speed_delta > 0
               THEN 0 ELSE Min(10000, Abs(speed_delta) * 12 + c.brake_jitter)
    IN  IF c.harsh_brake THEN [throttle |-> 0, brake |-> c.harsh_brake_pos]
        ELSE [throttle |-> thr, brake |-> brk]

\* lines 194-209: gear
GenGear(speed, c) ==
    LET auto == IF speed < 100 THEN "P" ELSE "D"
    IN  IF speed > 500 /\ c.numbered_gear THEN c.gear_choice ELSE auto

\* lines 211-216: steering
GenSteering(ph, c) ==
    Scale(Clamp(-54000, 54000, ph.steering + c.steering_delta), 95, 100)

\* lines 218-253: battery, by variant
GenBattery(ph, tick, variant, speed, brake, c) ==
    IF variant = "ICE" THEN
        LET soc == Max(9000, 10000 - c.ice_drain * tick)
        IN  [battery_soc |-> soc,
             battery_voltage |-> 1200 + Scale(soc, 2, 100),
             battery_temp |-> 2500 + c.temp_jitter,
             ev_range |-> 0, regen |-> FALSE,
             fuel_level |-> Max(0, ph.fuel_level - c.fuel_use)]
    ELSE IF variant = "Hybrid" THEN
        LET drained == ph.battery_soc - c.hybrid_drain
                       - (IF c.rapid_drop THEN c.hybrid_drop ELSE 0)
            soc == Max(1500, Min(10000, drained))
        IN  [battery_soc |-> soc,
             battery_voltage |-> 35000 + Scale(soc, 50, 100),
             battery_temp |-> 2500 + c.temp_jitter,
             ev_range |-> Max(0, Scale(soc * (48000 - speed), 1, 12000)),
             regen |-> brake > 3000,
             fuel_level |-> Max(0, ph.fuel_level - c.fuel_use)]
    ELSE
        LET drained == ph.battery_soc - c.ev_drain
                       - (IF c.rapid_drop THEN c.ev_drop ELSE 0)
            soc == Max(500, Min(10000, drained))
        IN  [battery_soc |-> soc,
             battery_voltage |-> 35000 + Scale(soc, 50, 100),
             battery_temp |-> 2500 + c.temp_jitter,
             ev_range |-> Max(0, Scale(soc * (55000 - speed), 1, 10000)),
             regen |-> brake > 3000,
             fuel_level |-> ph.fuel_level]

\* lines 255-259
HealthStatus(soc) ==
    IF soc < 2000 THEN "Low" ELSE IF soc < 5000 THEN "Fair" ELSE "Good"

GenTire_NoClamp(pressure, walk, dropped, c) ==
    pressure + walk - (IF dropped THEN c.tire_drop_psi ELSE 0)

\* lines 261-283: one tire
GenTire(pressure, walk, dropped, c) ==
    Clamp(1500, 4000, pressure + walk - (IF dropped THEN c.tire_drop_psi ELSE 0))

\* VehicleSimulator._generate_telemetry: the new physical state and the
\* snapshot built from it at wall-clock time t
_generate_telemetry(ph, tick, variant, c, t) ==
    LET sp == GenSpeed(ph, tick, c)
        pedals == GenPedals(sp.speed_delta, c)
        batt == GenBattery(ph, tick, variant, sp.speed, pedals.brake, c)
        new == [speed |-> sp.speed,
                battery_soc |-> batt.battery_soc,
                battery_voltage |-> batt.battery_voltage,
                battery_temp |-> batt.battery_temp,
                tire_fl |-> GenTire(ph.tire_fl, c.tire_walk[1], c.tire_drop = "fl", c),
                tire_fr |-> GenTire(ph.tire_fr, c.tire_walk[2], c.tire_drop = "fr", c),
                tire_rl |-> GenTire(ph.tire_rl, c.tire_walk[3], c.tire_drop = "rl", c),
                tire_rr |-> GenTire(ph.tire_rr, c.tire_walk[4], c.tire_drop = "rr", c),
                odometer |-> ph.odometer + sp.speed \div 36,
                speed_direction |-> sp.dir,
                fuel_level |-> batt.fuel_level,
                throttle |-> pedals.throttle,
                brake |-> pedals.brake,
                gear |-> GenGear(sp.speed, c),
                steering |-> GenSteering(ph, c),
                ev_range |-> batt.ev_range,
                gps_lat |-> ph.gps_lat + c.gps_dlat,
                gps_lon |-> ph.gps_lon + c.gps_dlon,
                gps_heading |-> ph.gps_heading + c.heading_delta]
    IN  [phys |-> new,
         tel |->
           [ timestamp |-> t,
             speed |-> Round1(new.speed),
             battery |-> [soc |-> Round1(new.battery_soc),
                          voltage |-> Round1(new.battery_voltage),
                          temperature |-> Round1(new.battery_temp),
                          health_status |-> HealthStatus(new.battery_soc)],
             tires |-> [front_left |-> Round1(new.tire_fl),
                        front_right |-> Round1(new.tire_fr),
                        rear_left |-> Round1(new.tire_rl),
                        rear_right |-> Round1(new.tire_rr)],
             drivetrain |-> [throttle_position |-> Round1(new.throttle),
                             brake_position |-> Round1(new.brake),
                             gear_position |-> new.gear,
                             steering_angle |-> Round1(new.steering)],
             ev_status |-> [ev_range |-> Round1(new.ev_range), charging |-> FALSE,
                            regen_braking |-> batt.regen],
             gps |-> [latitude |-> new.gps_lat, longitude |-> new.gps_lon],
             odometer |-> (new.odometer + 500) \div 1000,
             engine_status |-> IF variant = "ICE" THEN "running" ELSE "motor_running",
             vehicle_variant |-> variant ]]

\* One set of draws: an uneventful tick, accelerating by 3 km/h
Calm ==
    [flip |-> FALSE, speed_mag |-> 300, hold_speed |-> 11000,
     throttle_jitter |-> 500, brake_jitter |-> 400,
     harsh_brake |-> FALSE, harsh_brake_pos |-> 9500,
     numbered_gear |-> FALSE, gear_choice |-> "2",
     steering_delta |-> 0,
     ice_drain |-> 0, fuel_use |-> 5,
     hybrid_drain |-> 5, hybrid_drop |-> 300,
     ev_drain |-> 10, ev_drop |-> 600, rapid_drop |-> FALSE,
     temp_jitter |-> 100,
     tire_walk |-> <<0, 0, 0, 0>>, tire_drop |-> "none", tire_drop_psi |-> 1000,
     gps_dlat |-> 0, gps_dlon |-> 0, heading_delta |-> 0]

\* The draws a tick may make in the interleaving model: uneventful, or a
\* sudden drop of the front-left tire
TickDraws ==
    { Calm,
      [Calm EXCEPT !.tire_drop = "fl"] }

\* A tick whose battery draws are the largest ones: the rapid-drop event
\* fires and both uniform draws are at their upper ends
Burst ==
    [Calm EXCEPT !.rapid_drop = TRUE,
                 !.hybrid_drain = HybridMaxDrain, !.hybrid_drop = HybridMaxDrop,
                 !.ev_drain = 20, !.ev_drop = 800]

VariantDraws == {Calm, Burst}

\* Draws at the upper ends: the largest speed step, steering step and tire
\* walk, the largest battery drain with the rapid-drop event
Surge ==
    [Burst EXCEPT !.speed_mag = 500, !.hold_speed = 13000,
                  !.throttle_jitter = 1000, !.brake_jitter = 800,
                  !.steering_delta = 1000, !.ice_drain = 1, !.fuel_use = 10,
                  !.temp_jitter = 500, !.tire_walk = <<10, 10, 10, 10>>]

\* Draws at the lower ends: the direction flips, harsh braking at 100%, the
\* largest sudden drop on the front-left tire, steering to the left
Slump ==
    [Calm EXCEPT !.flip = TRUE, !.speed_mag = 500, !.hold_speed = 10500,
                 !.throttle_jitter = 0, !.brake_jitter = 0,
                 !.harsh_brake = TRUE, !.harsh_brake_pos = 10000,
                 !.steering_delta = -1000, !.ev_drain = 5,
                 !.temp_jitter = -200, !.tire_walk = <<-10, -10, -10, 10>>,
                 !.tire_drop = "fl", !.tire_drop_psi = 1500]

RangeDraws == {Surge, Slump}

\* Draws on which several of the analyzer's conditions hold at once: harsh
\* braking together with a sudden drop of one front tire
BrakeAndDrop(tire) ==
    [Calm EXCEPT !.harsh_brake = TRUE, !.tire_drop = tire]

RuleDraws == {Calm, BrakeAndDrop("fl"), BrakeAndDrop("fr")}

\* Draws that keep the speed low: the direction flips on every tick, and a
\* forced speed is the lowest one, 105 km/h
Dither ==
    [Calm EXCEPT !.flip = TRUE, !.speed_mag = 500, !.hold_speed = 10500]

LiveDraws == {Dither, Surge}

----------------------------------------------------------------------------
(* DataStore: reset, clear_alerts, construction *)

\* DataStore.reset
reset ==
    /\ telemetry' = mock_telemetry(now)
    /\ alerts' = <<>>
    /\ battery_history' = <<>>
    /\ speed_history' = <<>>
    /\ tire_history' = <<>>
    /\ telemetry_history' = <<>>
    /\ simulation' = DefaultSimulationStatus
    /\ UNCHANGED vehicle_variant

\* DataStore.clear_alerts
clear_alerts == alerts' = <<>>

\* What a call of PersistenceManager.save_telemetry / save_alert can do:
\* write the row; fail inside its own try block (INSERT or commit); fail
\* before it (get_persistence or _get_conn: the directory or the database
\* file cannot be opened)
SaveOutcomes == {"saved", "execute_failed", "connect_failed"}

\* the table after the call: a row is added only by a committed INSERT
save_row(log, outcome) == IF outcome = "saved" THEN log + 1 ELSE log

\* does the call raise?  "except Exception as e: logger.error(...)" keeps
\* an INSERT error inside; what _get_conn raises is outside that try block
save_raises(outcome) == outcome = "connect_failed"

\* sqlite3.Error and OSError are subclasses of Exception
IsException(outcome) == outcome \in {"execute_failed", "connect_failed"}

store_raises_Unhandled(outcome) == save_raises(outcome)

\* does update_telemetry / add_alert raise?  Both wrap the save in
\* "try: ... except Exception: pass"
store_raises(outcome) == save_raises(outcome) /\ ~IsException(outcome)

\* the alerts of a tick that reach add_alert: all of them, or, when the
\* save of an accepted alert raises out of add_alert, those up to it
Submitted(buf, new_alerts, outcome) ==
    LET stored == {i \in 1..Len(new_alerts) : ~DedupHit(buf, new_alerts[i])}
    IN  IF store_raises(outcome) /\ stored # {}
        THEN SubSeq(new_alerts, 1, CHOOSE i \in stored : \A j \in stored : i <= j)
        ELSE new_alerts

\* DataStore._load_persisted_data, for a database of p rows
_load_persisted_data(p) ==
    LET saved == load_telemetry_history(p, LoadLimit)
    IN  IF saved # <<>> THEN saved ELSE <<>>

\* DataStore.__init__ and VehicleSimulator.__init__, for a database that
\* holds one of the given numbers of rows
InitWith(sizes) ==
    /\ now = 0
    /\ telemetry = mock_telemetry(0)
    /\ alerts = <<>>
    /\ simulation = DefaultSimulationStatus
    /\ battery_history = <<>>
    /\ speed_history = <<>>
    /\ tire_history = <<>>
    /\ \E p \in sizes :
          /\ telemetry_history = _load_persisted_data(p)
          /\ n_hydrated = Len(_load_persisted_data(p))
          /\ telemetry_log = p
    /\ alert_log = 0
    /\ escaped = FALSE
    /\ vehicle_variant = "EV"
    /\ _running = FALSE
    /\ _tick_count = 0
    /\ _variant = "EV"
    /\ _task = 0
    /\ phys = InitialPhys
    /\ tasks = <<>>
    /\ stops = {}
    /\ ret = [call |-> "none", status |-> DefaultSimulationStatus]
    /\ accepted = <<>>
    /\ n_updates = 0
    /\ run_ticks = 0
    /\ budget = [ticks |-> 0, env |-> 0, fill |-> 0, probe |-> 0, clears |-> 0]

Init == InitWith({0})
InitStore == InitWith(PersistedSizes)

----------------------------------------------------------------------------
(* VehicleSimulator: start, stop, _simulation_loop *)

\* str.upper() on the variant strings a caller may pass
Upper(v) ==
    CASE v = "Hybrid" -> "HYBRID"
      [] v = "hybrid" -> "HYBRID"
      [] v = "ev" -> "EV"
      [] v = "ice" -> "ICE"
      [] v = "Truck" -> "TRUCK"
      [] OTHER -> v

\* variant.upper() if variant else "EV"
NormalizeVariant(v) == IF v = "" THEN "EV" ELSE Upper(v)

StartVariants == {"EV", "ICE"}

\* asyncio.create_task(coro): the task is scheduled and has not run yet
NewTask == [st |-> "ready", must_cancel |-> FALSE, wake_at |-> 0]

\* Task.cancel(): a task that is not done gets CancelledError thrown into
\* its coroutine the next time it is stepped
Cancelled(ts, t) ==
    IF ts[t].st = "done" THEN ts ELSE [ts EXCEPT ![t].must_cancel = TRUE]

\* start(), lines 85-91: already running
StartNoop_Restarts(variant) ==
    /\ _running
    /\ _tick_count' = 0
    /\ simulation' = [simulation EXCEPT !.tick_count = 0]
    /\ ret' = [call |-> "start",
               status |-> SimulationStatus(TRUE, 0, simulation.start_time,
                                           <<"Simulator already running">>)]
    /\ UNCHANGED <<now, telemetry, alerts, window_vars, vehicle_variant,
                   _running, _variant, _task, phys, tasks, stops, hist_vars,
                   persist_vars, budget>>

\* start(), lines 85-91: already running
StartNoop(variant) ==
    /\ _running
    /\ ret' = [call |-> "start",
               status |-> SimulationStatus(TRUE, _tick_count, simulation.start_time,
                                           <<"Simulator already running">>)]
    /\ UNCHANGED <<now, store_vars, sim_vars, hist_vars, persist_vars, budget>>

StartRun_WritesSnapshot(variant) ==
    /\ ~_running
    /\ Len(tasks) < MaxTasks
    /\ _variant' = NormalizeVariant(variant)
    /\ vehicle_variant' = _variant'
    /\ _running' = TRUE
    /\ _tick_count' = 0
    /\ phys' = phys
    /\ telemetry' = mock_telemetry(now)
    /\ simulation' = SimulationStatus(TRUE, 0, Some(now),
                                      <<"Simulator started", _variant'>>)
    /\ tasks' = Append(tasks, NewTask)
    /\ _task' = Len(tasks')
    /\ ret' = [call |-> "start", status |-> simulation']
    /\ run_ticks' = 0
    /\ UNCHANGED <<now, alerts, window_vars, stops,
                   accepted, n_updates, n_hydrated, persist_vars, budget>>

\* start(), lines 93-114
StartRun(variant) ==
    /\ ~_running
    /\ Len(tasks) < MaxTasks
    /\ _variant' = NormalizeVariant(variant)
    /\ vehicle_variant' = _variant'
    /\ _running' = TRUE
    /\ _tick_count' = 0
    /\ phys' = IF _variant' = "ICE"
               THEN [phys EXCEPT !.battery_soc = 10000, !.fuel_level = 10000]
               ELSE phys
    /\ simulation' = SimulationStatus(TRUE, 0, Some(now),
                                      <<"Simulator started", _variant'>>)
    /\ tasks' = Append(tasks, NewTask)
    /\ _task' = Len(tasks')
    /\ ret' = [call |-> "start", status |-> simulation']
    /\ run_ticks' = 0
    /\ UNCHANGED <<now, telemetry, alerts, window_vars, stops,
                   accepted, n_updates, n_hydrated, persist_vars, budget>>

start(variant) == StartNoop(variant) \/ StartRun(variant)

\* stop(), lines 118-123: not running
StopNoop ==
    /\ ~_running
    /\ ret' = [call |-> "stop",
               status |-> SimulationStatus(FALSE, _tick_count, NoneValue,
                                           <<"Simulator not running">>)]
    /\ UNCHANGED <<now, store_vars, sim_vars, hist_vars, persist_vars, budget>>

\* stop(), lines 134-141: the status written and returned at the end
StoppedStatus ==
    SimulationStatus(FALSE, _tick_count, NoneValue,
                     <<"Simulator stopped after", _tick_count, "ticks">>)

\* stop(), lines 125-129: clear the flag, cancel the task and await it.
\* With no task, or a task that is already done, the await does not
\* suspend and the call runs to its end in the same step.
StopBegin ==
    /\ _running
    /\ _running' = FALSE
    /\ IF _task # 0 /\ tasks[_task].st # "done"
       THEN /\ tasks' = Cancelled(tasks, _task)
            /\ stops' = stops \cup {[task |-> _task, called_at |-> run_ticks]}
            /\ UNCHANGED <<_task, simulation, ret>>
       ELSE /\ _task' = 0
            /\ simulation' = StoppedStatus
            /\ ret' = [call |-> "stop", status |-> simulation']
            /\ UNCHANGED <<tasks, stops>>
    /\ UNCHANGED <<now, telemetry, alerts, window_vars, vehicle_variant,
                   _tick_count, _variant, phys, hist_vars, persist_vars, budget>>

\* stop(), lines 130-141: resumed once the awaited task is done
StopFinish(call) ==
    /\ call \in stops
    /\ tasks[call.task].st = "done"
    /\ stops' = stops \ {call}
    /\ _task' = 0
    /\ simulation' = StoppedStatus
    /\ ret' = [call |-> "stop", status |-> simulation']
    /\ UNCHANGED <<now, telemetry, alerts, window_vars, vehicle_variant,
                   _running, _tick_count, _variant, phys, tasks, hist_vars,
                   persist_vars, budget>>

\* _simulation_loop, lines 148-160: the body of one loop iteration, run at
\* wall-clock time t with the draws c
\* the loop body is left by an exception: update_telemetry raised, or
\* add_alert raised at the save of an alert it had appended
TickRaises(o_t, o_a) ==
    \/ store_raises(o_t)
    \/ store_raises(o_a) /\ Len(accepted') > Len(accepted)

TickBody_UpdateOnly(c, t, o_t, o_a) ==
    \E gen \in {_generate_telemetry(phys, _tick_count + 1, _variant, c, t)} :
        /\ _tick_count' = _tick_count + 1
        /\ phys' = gen.phys
        /\ update_telemetry(gen.tel, t)
        /\ telemetry_log' = save_row(telemetry_log, o_t)
        /\ simulation' = [simulation EXCEPT !.tick_count = _tick_count']
        /\ UNCHANGED <<alerts, accepted, alert_log, escaped>>

\* o_t is the outcome of the snapshot's save, o_a that of the alerts' saves
TickBody(c, t, o_t, o_a) ==
    \E gen \in {_generate_telemetry(phys, _tick_count + 1, _variant, c, t)} :
    LET new_alerts == IF store_raises(o_t) THEN <<>>
                      ELSE Submitted(alerts,
                                     analyze(gen.tel, battery_history', speed_history'),
                                     o_a)
    IN  /\ _tick_count' = _tick_count + 1
        /\ phys' = gen.phys
        /\ update_telemetry(gen.tel, t)
        /\ telemetry_log' = save_row(telemetry_log, o_t)
        /\ alerts' = add_alerts(alerts, new_alerts)
        /\ accepted' = accept_alerts(accepted, alerts, new_alerts)
        /\ alert_log' = IF o_a = "saved"
                        THEN alert_log + Len(accepted') - Len(accepted)
                        ELSE alert_log
        /\ escaped' = (escaped \/ TickRaises(o_t, o_a))
        /\ simulation' = IF TickRaises(o_t, o_a) THEN simulation
                         ELSE [simulation EXCEPT !.tick_count = _tick_count']

\* when a task is stepped: a sleeping task not before its timer is due
StepTime(t) ==
    IF tasks[t].st = "sleeping" /\ ~tasks[t].must_cancel
    THEN Max(now, tasks[t].wake_at) ELSE now

\* a loop task is stepped with a cancellation pending: CancelledError is
\* raised at its start or at its sleep, and the task ends (lines 163-165)
LoopCancelled(t) ==
    /\ t \in 1..Len(tasks)
    /\ tasks[t].st # "done"
    /\ tasks[t].must_cancel
    /\ tasks' = [tasks EXCEPT ![t].st = "done"]
    /\ UNCHANGED <<now, store_vars, _running, _tick_count, _variant, _task, phys,
                   stops, ret, hist_vars, persist_vars, budget>>

\* a loop task is stepped and finds _running false at "while self._running"
LoopExit(t) ==
    /\ t \in 1..Len(tasks)
    /\ tasks[t].st # "done"
    /\ ~tasks[t].must_cancel
    /\ ~_running
    /\ now' = StepTime(t)
    /\ tasks' = [tasks EXCEPT ![t].st = "done"]
    /\ UNCHANGED <<store_vars, _running, _tick_count, _variant, _task, phys,
                   stops, ret, hist_vars, persist_vars, budget>>

\* a loop task is stepped, finds _running true, runs one iteration and
\* suspends at "await asyncio.sleep(1)"
LoopTickWith(t, c, max_ticks, o_t, o_a) ==
    /\ t \in 1..Len(tasks)
    /\ tasks[t].st # "done"
    /\ ~tasks[t].must_cancel
    /\ _running
    /\ budget.ticks < max_ticks
    /\ now' = StepTime(t)
    /\ TickBody(c, now', o_t, o_a)
    /\ tasks' = IF TickRaises(o_t, o_a)
              THEN [tasks EXCEPT ![t].st = "done"]
              ELSE [tasks EXCEPT ![t].st = "sleeping", ![t].wake_at = now' + 1]
    /\ n_updates' = n_updates + 1
    /\ run_ticks' = run_ticks + 1
    /\ budget' = [budget EXCEPT !.ticks = @ + 1]
    /\ UNCHANGED <<vehicle_variant, _running, _variant, _task, stops, ret, n_hydrated>>

\* the iteration when both saves succeed
LoopTick(t, c, max_ticks) == LoopTickWith(t, c, max_ticks, "saved", "saved")

----------------------------------------------------------------------------
(* The environment of the simulator and the store *)

\* wall-clock time passes while nothing runs
TimeJumps == {DedupWindow - 1, WindowAge - 1}
TimePasses(d, max_env) ==
    /\ budget.env < max_env
    /\ now' = now + d
    /\ budget' = [budget EXCEPT !.env = @ + 1]
    /\ UNCHANGED <<store_vars, sim_vars, ret, hist_vars, persist_vars>>

\* ExternalTelemetryFeed: every field optional
NoFields ==
    [speed |-> NoneValue, battery_soc |-> NoneValue, battery_voltage |-> NoneValue,
     battery_temperature |-> NoneValue,
     tire_fl |-> NoneValue, tire_fr |-> NoneValue,
     tire_rl |-> NoneValue, tire_rr |-> NoneValue,
     throttle |-> NoneValue, brake |-> NoneValue, steering_angle |-> NoneValue,
     gear |-> NoneValue, latitude |-> NoneValue, longitude |-> NoneValue,
     ev_range |-> NoneValue, odometer |-> NoneValue, vehicle_variant |-> NoneValue]

\* x if x is not None else y
OrElse(x, y) == IF x # NoneValue THEN x[1] ELSE y

\* feed_external_telemetry lines 61-98 and datagram_received lines 45-81:
\* the provided fields merged over the current snapshot
MergeFeed(data, current, t) ==
    [ timestamp |-> t,
      speed |-> OrElse(data.speed, current.speed),
      battery |-> [soc |-> OrElse(data.battery_soc, current.battery.soc),
                   voltage |-> OrElse(data.battery_voltage, current.battery.voltage),
                   temperature |-> OrElse(data.battery_temperature,
                                          current.battery.temperature),
                   health_status |-> current.battery.health_status],
      tires |-> [front_left |-> OrElse(data.tire_fl, current.tires.front_left),
                 front_right |-> OrElse(data.tire_fr, current.tires.front_right),
                 rear_left |-> OrElse(data.tire_rl, current.tires.rear_left),
                 rear_right |-> OrElse(data.tire_rr, current.tires.rear_right)],
      drivetrain |-> [throttle_position |-> OrElse(data.throttle,
                                                   current.drivetrain.throttle_position),
                      brake_position |-> OrElse(data.brake,
                                                current.drivetrain.brake_position),
                      gear_position |-> OrElse(data.gear,
                                               current.drivetrain.gear_position),
                      steering_angle |-> OrElse(data.steering_angle,
                                                current.drivetrain.steering_angle)],
      ev_status |-> [ev_range |-> OrElse(data.ev_range, current.ev_status.ev_range),
                     charging |-> current.ev_status.charging,
                     regen_braking |-> current.ev_status.regen_braking],
      gps |-> [latitude |-> OrElse(data.latitude, current.gps.latitude),
               longitude |-> OrElse(data.longitude, current.gps.longitude)],
      odometer |-> OrElse(data.odometer, current.odometer),
      engine_status |-> "running",
      vehicle_variant |-> OrElse(data.vehicle_variant, current.vehicle_variant) ]

\* the payloads an external simulator sends in the model
SpeedOnlyFeed == [NoFields EXCEPT !.speed = Some(420)]
ExternalFeeds ==
    { SpeedOnlyFeed,
      [NoFields EXCEPT !.tire_fl = Some(200), !.brake = Some(950)] }

\* POST /simulator/external/feed, or one UDP datagram
ExternalFeedWith(data, max_env, outcome) ==
    /\ budget.env < max_env
    /\ update_telemetry(MergeFeed(data, telemetry, now), now)
    /\ telemetry_log' = save_row(telemetry_log, outcome)
    /\ escaped' = (escaped \/ store_raises(outcome))
    /\ n_updates' = n_updates + 1
    /\ budget' = [budget EXCEPT !.env = @ + 1]
    /\ UNCHANGED <<now, alerts, simulation, vehicle_variant, sim_vars, ret,
                   accepted, n_hydrated, run_ticks, alert_log>>

\* the feed when the save succeeds
ExternalFeed(data, max_env) == ExternalFeedWith(data, max_env, "saved")

\* a caller of DataStore.reset
Reset(max_env) ==
    /\ budget.env < max_env
    /\ reset
    /\ accepted' = <<>>
    /\ n_updates' = 0
    /\ n_hydrated' = 0
    /\ budget' = [budget EXCEPT !.env = @ + 1]
    /\ UNCHANGED <<now, sim_vars, ret, run_ticks, persist_vars>>

\* The simulator's lifecycle: concurrent start() and stop() calls, the loop
\* tasks they create and cancel, and an external feed writing to the store
Next ==
    \/ \E v \in StartVariants : start(v)
    \/ StopNoop
    \/ StopBegin
    \/ \E call \in stops : StopFinish(call)
    \/ \E t \in 1..Len(tasks) : LoopCancelled(t)
    \/ \E t \in 1..Len(tasks) : LoopExit(t)
    \/ \E t \in 1..Len(tasks) : LoopTick(t, Calm, MaxTicks)
    \/ ExternalFeed(SpeedOnlyFeed, MaxEnv)

Spec == Init /\ [][Next]_vars

----------------------------------------------------------------------------
(* One run of the simulator that is never stopped, with external feeds,   *)
(* resets and idle time in between its ticks                              *)

NextTicks ==
    \/ \E v \in StartVariants : StartRun(v)
    \/ \E t \in 1..Len(tasks), c \in TickDraws : LoopTick(t, c, MaxRunTicks)
    \/ \E d \in TimeJumps : TimePasses(d, MaxRunEnv)
    \/ \E data \in ExternalFeeds : ExternalFeed(data, MaxRunEnv)
    \/ Reset(MaxRunEnv)

SpecTicks == InitStore /\ [][NextTicks]_vars

----------------------------------------------------------------------------
(* A long uneventful run: start("EV"), then ticks with the Calm draws *)

NextLong ==
    \/ StartRun("EV")
    \/ \E t \in 1..Len(tasks) : LoopTick(t, Calm, MaxLongTicks)

SpecLong == InitStore /\ [][NextLong]_vars

----------------------------------------------------------------------------
(* One run per variant string a caller may pass to start() *)

CallerVariants == {"EV", "ICE", "Hybrid", "Truck", ""}

NextVariants ==
    \/ \E v \in CallerVariants : StartRun(v)
    \/ \E t \in 1..Len(tasks), c \in VariantDraws : LoopTick(t, c, MaxVariantTicks)

SpecVariants == Init /\ [][NextVariants]_vars

----------------------------------------------------------------------------
(* A run long enough for the values to reach both ends of their ranges:  *)
(* any draws on the first MaxEarly ticks, the upper draws up to tick      *)
(* MaxClimb, any draws after that                                         *)

NextRanges ==
    \/ \E v \in StartVariants : StartRun(v)
    \/ \E t \in 1..Len(tasks), c \in RangeDraws :
          /\ c = Surge \/ _tick_count < MaxEarly \/ _tick_count >= MaxClimb
          /\ LoopTick(t, c, MaxRangeTicks)

SpecRanges == Init /\ [][NextRanges]_vars

----------------------------------------------------------------------------
(* One run whose ticks meet several of the analyzer's conditions at once *)

NextRules ==
    \/ \E v \in StartVariants : StartRun(v)
    \/ \E t \in 1..Len(tasks), c \in RuleDraws : LoopTick(t, c, MaxRuleTicks)
    \/ \E d \in TimeJumps : TimePasses(d, MaxRuleEnv)

SpecRules == Init /\ [][NextRules]_vars

----------------------------------------------------------------------------
(* A run that is left alone: the loop is stepped whenever it can be. The  *)
(* draws keep the speed low up to tick MaxQuiet and are free after that.  *)

NextLive ==
    \/ \E v \in StartVariants : StartRun(v)
    \/ \E t \in 1..Len(tasks), c \in LiveDraws :
          /\ c = Dither \/ _tick_count >= MaxQuiet
          /\ LoopTick(t, c, MaxLiveTicks)

SpecLive == Init /\ [][NextLive]_vars /\ WF_vars(NextLive)

----------------------------------------------------------------------------
(* Runs that are stopped and started again, with idle time between ticks *)

NextIce ==
    \/ \E v \in StartVariants : StartRun(v)
    \/ StopBegin
    \/ \E call \in stops : StopFinish(call)
    \/ \E t \in 1..Len(tasks) : LoopCancelled(t)
    \/ \E t \in 1..Len(tasks) : LoopExit(t)
    \/ \E t \in 1..Len(tasks) : LoopTick(t, Calm, MaxIceTicks)
    \/ TimePasses(DedupWindow - 1, MaxIceEnv)

SpecIce == Init /\ [][NextIce]_vars

----------------------------------------------------------------------------
(* Callers of the alert buffer: add_alert, clear_alerts *)

\* the k-th filler alert: one key, timestamps DedupWindow apart
FillerAlert(k) ==
    AlertModel("low_ev_range", "warning", "ev_range", 0, DedupWindow * k)

\* free-form alerts: the filler's key or another, at a few timestamps
ProbeTimes == {0, 5, 9, 10, 19, 20}
ProbeAlerts ==
    { AlertModel(k[1], "warning", k[2], 0, ts) :
        k \in {<<"low_ev_range", "ev_range">>, <<"harsh_braking", "brake_position">>},
        ts \in ProbeTimes }

\* a caller of DataStore.add_alert
AddAlert(a) ==
    /\ alerts' = add_alert(alerts, a)
    /\ accepted' = accept_alerts(accepted, alerts, <<a>>)
    /\ alert_log' = alert_log + Len(accepted') - Len(accepted)
    /\ UNCHANGED <<telemetry_log, escaped>>

AddFiller(max_fill) ==
    /\ budget.fill < max_fill
    /\ AddAlert(FillerAlert(budget.fill))
    /\ budget' = [budget EXCEPT !.fill = @ + 1]
    /\ UNCHANGED <<now, telemetry, simulation, window_vars, vehicle_variant,
                   sim_vars, ret, n_updates, n_hydrated, run_ticks>>

AddProbe(a) ==
    /\ budget.probe < MaxProbe
    /\ AddAlert(a)
    /\ budget' = [budget EXCEPT !.probe = @ + 1]
    /\ UNCHANGED <<now, telemetry, simulation, window_vars, vehicle_variant,
                   sim_vars, ret, n_updates, n_hydrated, run_ticks>>

\* a caller of DataStore.clear_alerts
ClearAlerts ==
    /\ budget.clears < MaxClears
    /\ clear_alerts
    /\ accepted' = <<>>
    /\ budget' = [budget EXCEPT !.clears = @ + 1]
    /\ UNCHANGED <<now, telemetry, simulation, window_vars, vehicle_variant,
                   sim_vars, ret, n_updates, n_hydrated, run_ticks, persist_vars>>

NextAlerts ==
    \/ AddFiller(MaxFill)
    \/ \E a \in ProbeAlerts : AddProbe(a)

SpecAlerts == Init /\ [][NextAlerts]_vars

NextAlertCap ==
    \/ AddFiller(MaxCapFill)
    \/ ClearAlerts

SpecAlertCap == Init /\ [][NextAlertCap]_vars

----------------------------------------------------------------------------
(* One run of the simulator and external feeds over a database whose      *)
(* writes may fail                                                        *)

NextPersist ==
    \/ \E v \in StartVariants : StartRun(v)
    \/ \E t \in 1..Len(tasks), c \in TickDraws, o_t \in SaveOutcomes, o_a \in SaveOutcomes :
          LoopTickWith(t, c, MaxPersistTicks, o_t, o_a)
    \/ \E data \in ExternalFeeds, o \in SaveOutcomes :
          ExternalFeedWith(data, MaxPersistEnv, o)

SpecPersist == Init /\ [][NextPersist]_vars

----------------------------------------------------------------------------
(* Snapshots injected by an external feeder, as inputs of the analyzer:   *)
(* tire pressures, speeds and states of charge on both sides of the       *)
(* analyzer's thresholds                                                  *)

TireLevels == {TirePressureMin - 1, TirePressureMin}
TireFeeds ==
    { [NoFields EXCEPT !.tire_fl = Some(fl), !.tire_fr = Some(fr),
                       !.tire_rl = Some(rl), !.tire_rr = Some(rr)] :
        fl \in TireLevels, fr \in TireLevels, rl \in TireLevels, rr \in TireLevels }

NextTires == \E data \in TireFeeds : ExternalFeedWith(data, MaxTireFeeds, "saved")
SpecTires == Init /\ [][NextTires]_vars

SpeedLevels == {HighSpeedMin, HighSpeedMin + 1}
SpeedFeeds == { [NoFields EXCEPT !.speed = Some(v)] : v \in SpeedLevels }

NextSpeeds == \E data \in SpeedFeeds : ExternalFeedWith(data, MaxSpeedFeeds, "saved")
SpecSpeeds == Init /\ [][NextSpeeds]_vars

SocLevels == {849, 850, 850 + BatteryDropMax}
SocFeeds == { [NoFields EXCEPT !.battery_soc = Some(v)] : v \in SocLevels }

NextBattery ==
    \/ \E data \in SocFeeds : ExternalFeedWith(data, MaxBatteryEnv, "saved")
    \/ \E d \in TimeJumps : TimePasses(d, MaxBatteryEnv)
SpecBattery == Init /\ [][NextBattery]_vars

----------------------------------------------------------------------------
(* predictive_engine: trend predictions over the store's windows.         *)
(* Values are in tenths, as in the windows; a slope is the exact fraction *)
(* num / den with den > 0, in tenths per sample.                          *)

PredictMin == 10
CriticalSoc == 100
HorizonLookahead == 60
TireCriticalBelow == 250
TireWarningBelow == 280
CriticalWithin == 300
WarningWithin == 900

RECURSIVE SumTo(_, _)
\* sum(f[i] for i in 1..n)
SumTo(f, n) == IF n = 0 THEN 0 ELSE f[n] + SumTo(f, n - 1)
Sum(values) == SumTo(values, Len(values))

\* int(a / b): the quotient truncated toward zero, b # 0 (the exact
\* quotient: the float one can fall just short of a whole number)
IntDiv(a, b) ==
    IF (a >= 0) = (b > 0) THEN Abs(a) \div Abs(b) ELSE -(Abs(a) \div Abs(b))

\* round(a / b) to the nearest whole, ties to even, b > 0
RoundDiv(a, b) ==
    LET f == a \div b
        r == a % b
    IN  IF 2 * r < b THEN f
        ELSE IF 2 * r > b THEN f + 1
        ELSE IF f % 2 = 0 THEN f ELSE f + 1

\* _linear_regression: the slope of the least-squares line through
\* (0, values[1]), (1, values[2]), ...; numerator and denominator are both
\* scaled to whole numbers (by 2n and by 4, giving 2 * num2n / (n * den4))
_linear_regression(values) ==
    LET n == Len(values)
        total == Sum(values)
        num2n == Sum([i \in 1..n |-> (2 * (i - 1) - (n - 1)) * (n * values[i] - total)])
        den4 == Sum([i \in 1..n |-> (2 * (i - 1) - (n - 1)) * (2 * (i - 1) - (n - 1))])
    IN  IF n < 2 \/ den4 = 0 THEN [num |-> 0, den |-> 1]
        ELSE [num |-> 2 * num2n, den |-> n * den4]

Prediction(signal, prediction_type, current_value, predicted_value, time_horizon_seconds, severity) ==
    [signal |-> signal, prediction_type |-> prediction_type,
     current_value |-> current_value, predicted_value |-> predicted_value,
     time_horizon_seconds |-> time_horizon_seconds, severity |-> severity]

\* the Prediction of the "slope >= 0" branch, with its confidence of 0.5
StablePrediction(current) ==
    [signal |-> "battery_soc", prediction_type |-> "battery_depletion",
     current_value |-> current, predicted_value |-> current,
     confidence |-> 50, time_horizon_seconds |-> 0,
     message |-> "Battery SoC is stable or increasing", severity |-> "info"]

predict_battery_depletion_NineSamples(history) ==
    IF Len(history) < PredictMin - 1 THEN NoneValue
    ELSE Some(StablePrediction(history[Len(history)].soc))

\* predict_battery_depletion; the confidence of the declining branch
\* (_r_squared) is not carried in the record
predict_battery_depletion(history) ==
    IF Len(history) < PredictMin THEN NoneValue
    ELSE
        LET soc_values == [i \in 1..Len(history) |-> history[i].soc]
            slope == _linear_regression(soc_values)
            current == soc_values[Len(soc_values)]
            seconds_to_critical ==
                IntDiv((CriticalSoc - current) * slope.den, slope.num)
            predicted_soc_60s ==
                Max(0, RoundDiv(current * slope.den + HorizonLookahead * slope.num,
                                slope.den))
            severity == IF seconds_to_critical < CriticalWithin THEN "critical"
                        ELSE IF seconds_to_critical < WarningWithin THEN "warning"
                        ELSE "info"
        IN  IF slope.num >= 0 THEN Some(StablePrediction(current))
            ELSE Some(Prediction("battery_soc", "battery_depletion", current,
                                 predicted_soc_60s, seconds_to_critical, severity))

\* predict_tire_wear; the severity compares the value before rounding
predict_tire_wear(history, tire_id) ==
    IF Len(history) < PredictMin THEN NoneValue
    ELSE
        LET values == [i \in 1..Len(history) |-> history[i][tire_id]]
            slope == _linear_regression(values)
            current == values[Len(values)]
            scaled_60s == current * slope.den + HorizonLookahead * slope.num
            severity == IF scaled_60s < TireCriticalBelow * slope.den THEN "critical"
                        ELSE IF scaled_60s < TireWarningBelow * slope.den THEN "warning"
                        ELSE "info"
        IN  Some(Prediction(<<"tire_pressure", tire_id>>, "tire_wear", current,
                            RoundDiv(scaled_60s, slope.den),
                            HorizonLookahead, severity))

RECURSIVE MaxOf(_, _)
\* max(f[i] for i in 1..n), n >= 1
MaxOf(f, n) == IF n = 1 THEN f[1] ELSE Max(f[n], MaxOf(f, n - 1))

\* calculate_driving_score, in tenths of a point: braking_score is the
\* fraction braking / (n - 1) and efficiency_score the fraction
\* efficiency / 1000 until the returned values are rounded
calculate_driving_score(spd_hist, batt_hist) ==
    IF Len(spd_hist) < PredictMin THEN NoneValue
    ELSE
        LET n == Len(spd_hist)
            speeds == [i \in 1..n |-> spd_hist[i].speed]
            max_speed == MaxOf(speeds, n)
            speed_score == Max(0, 1000 - Max(0, max_speed - 1200) * 2)
            deltas == [i \in 1..(n - 1) |-> Abs(speeds[i + 1] - speeds[i])]
            braking == Max(0, 1000 * (n - 1) - Sum(deltas) * 10)
            soc_used == IF Len(batt_hist) >= 2
                        THEN batt_hist[1].soc - batt_hist[Len(batt_hist)].soc
                        ELSE 0
            efficiency ==
                IF Len(batt_hist) >= 2 /\ Sum(speeds) > 0 /\ soc_used > 0
                THEN Max(0, 1000 * 1000 - soc_used * 3875)
                ELSE 800 * 1000
        IN  Some([overall_score |->
                      RoundDiv(3 * speed_score * (n - 1) * 1000
                               + 4 * braking * 1000
                               + 3 * efficiency * (n - 1),
                               10 * (n - 1) * 1000),
                  speed_score |-> speed_score,
                  braking_score |-> RoundDiv(braking, n - 1),
                  efficiency_score |-> RoundDiv(efficiency, 1000),
                  data_points |-> n])

TireIds == <<"front_left", "front_right", "rear_left", "rear_right">>

RECURSIVE Flatten(_, _)
\* the items of the Optionals f[1..n] that are not None, in order
Flatten(f, n) == IF n = 0 THEN <<>> ELSE Flatten(f, n - 1) \o f[n]

\* generate_predictive_report(store)
generate_predictive_report(batt_hist, tire_hist, spd_hist) ==
    [predictions |->
         predict_battery_depletion(batt_hist)
         \o (IF tire_hist # <<>>
             THEN Flatten([k \in 1..4 |-> predict_tire_wear(tire_hist, TireIds[k])], 4)
             ELSE <<>>),
     driving_score |-> calculate_driving_score(spd_hist, batt_hist),
     data_points_analyzed |-> Len(spd_hist) + Len(batt_hist)]

----------------------------------------------------------------------------
(* Feeds of a state of charge that stays or falls from one feed to the   *)
(* next, with resets in between                                           *)

LowSoc == 108
SocSteps == {0, 2}

TrendFeeds ==
    { [NoFields EXCEPT !.battery_soc = Some(v)] :
        v \in {telemetry.battery.soc - d : d \in SocSteps}
              \cup (IF n_updates = 0 THEN {LowSoc} ELSE {}) }

NextTrend ==
    \/ \E data \in TrendFeeds : ExternalFeedWith(data, MaxTrendEnv, "saved")
    \/ Reset(MaxTrendEnv)

SpecTrend == Init /\ [][NextTrend]_vars

----------------------------------------------------------------------------
(* Claims about the alert buffer *)

SameKey(a, b) == a.alert_type = b.alert_type /\ a.signal = b.signal

\* C1: in every reachable state the alert buffer holds no two alerts with
\* the same (type, signal) whose timestamps differ by less than 10 seconds.
C1_NoNearDuplicatesStored ==
    \A i, j \in 1..Len(alerts) :
        (i < j /\ SameKey(alerts[i], alerts[j]))
            => Abs(alerts[i].timestamp - alerts[j].timestamp) >= DedupWindow

\* no stored alert with a's key is less than DedupWindow seconds from a
FarFromStored(buf, a) ==
    \A i \in 1..Len(buf) :
        SameKey(buf[i], a) => Abs(buf[i].timestamp - a.timestamp) >= DedupWindow

\* the alerts the analyzer produces from the snapshot of the tick just run
TickAlerts == analyze(telemetry', battery_history', speed_history')

\* C2: a tick stores exactly those of its snapshot's alerts that are 10 s or
\* more from every stored alert of the same (type, signal), in order: an
\* alert 10 s or more after the stored one is appended, one less than 10 s
\* after it is dropped (while the buffer is below its cap).
C2_SnapshotDedup ==
    [][ (_tick_count' = _tick_count + 1 /\ Len(alerts) + Len(TickAlerts) <= AlertCap)
            => alerts' = alerts \o SelectSeq(TickAlerts,
                                             LAMBDA a : FarFromStored(alerts, a)) ]_vars

\* three ticks produced the same alert at t, less than 10 s later, and 10 s
\* after t: the first and the third are stored, the second is not
C2_Witness ==
    /\ run_ticks = 3
    /\ Len(alerts) = 2
    /\ SameKey(alerts[1], alerts[2])
    /\ alerts[2].timestamp - alerts[1].timestamp = DedupWindow
    /\ \E i \in 1..Len(telemetry_history) :
          /\ telemetry_history[i].timestamp > alerts[1].timestamp
          /\ telemetry_history[i].timestamp < alerts[2].timestamp
          /\ telemetry_history[i].ev_range < EvRangeMin

\* C5: the alert buffer never holds more than 100 alerts, and it is exactly
\* the (up to) 100 most recently accepted alerts, in acceptance order.
C5_BufferIsLatestAccepted ==
    /\ Len(alerts) <= AlertCap
    /\ alerts = IF Len(accepted) <= AlertCap THEN accepted
                ELSE SubSeq(accepted, Len(accepted) - AlertCap + 1, Len(accepted))

\* more than 100 alerts have been accepted and the oldest were evicted
C5_Witness ==
    /\ Len(accepted) > AlertCap
    /\ Len(alerts) = AlertCap
    /\ alerts[1] = accepted[Len(accepted) - AlertCap + 1]
    /\ alerts[1] # accepted[1]

\* the limits the claim about getAlerts ranges over
AlertLimits == 0..AlertCap

\* C6: for every limit from 0 to 100, getAlerts(limit) returns exactly the
\* min(limit, stored) most recently stored alerts, newest first.
C6_GetAlertsNewestFirstUpToLimit ==
    \A limit \in AlertLimits :
        get_alerts(alerts, limit)
            = [i \in 1..Min(limit, Len(alerts)) |-> alerts[Len(alerts) + 1 - i]]

----------------------------------------------------------------------------
(* Claims about the windows *)

\* the limits GET /vehicle/history accepts (Query ge=1, le=300)
HistoryLimits == 1..HistoryCap

\* In a long run the k-th tick runs at second k - 1 and the hydrated rows
\* carry the seconds before 0, so the record written at second s is the
\* (n_hydrated + s + 1)-th record the window has received.
\* the m most recent records received so far, by their timestamps
LatestStamps(m) == [i \in 1..m |-> n_updates - m + i - 1]
Stamps(window) == [i \in 1..Len(window) |-> window[i].timestamp]

\* C3 (as amended): after n updates on top of h hydrated records,
\* getHistory(limit) returns exactly min(limit, h + n) records, the most
\* recent ones, oldest first, for every limit in 1..300; after 350 ticks
\* getHistory(300) returns the records of the last 300 ticks.
C3_HistoryLatestWithHydrated ==
    \A limit \in HistoryLimits :
        Stamps(get_telemetry_history(telemetry_history, limit))
            = LatestStamps(Min(limit, n_hydrated + n_updates))

\* 350 ticks have run and getHistory(300) starts at the record of tick 51
C3_Witness ==
    /\ n_updates = 350
    /\ Len(get_telemetry_history(telemetry_history, HistoryCap)) = HistoryCap
    /\ get_telemetry_history(telemetry_history, HistoryCap)[1].timestamp = 50

\* C3 as stated: after n updates getHistory(300) returns exactly
\* min(300, n) records.
C3_HistoryCountIsMinOfUpdates ==
    n_updates >= 1 =>
        Len(get_telemetry_history(telemetry_history, HistoryCap))
            = Min(HistoryCap, n_updates)

NonDecreasing(window) ==
    \A i \in 1..(Len(window) - 1) : window[i].timestamp <= window[i + 1].timestamp

\* the last entry of an age window is the sample of the last update; the
\* filter drops an entry as soon as it is 300 s old, so none is older
NoneOlderThanWindowAge(window) ==
    \A i \in 1..Len(window) :
        window[i].timestamp > window[Len(window)].timestamp - WindowAge

\* C4: under updates (ticks, feeds) and resets, from any hydrated start, the
\* full-history window never holds more than 300 records, the battery, speed
\* and tire windows hold no entry 300 s or more older than the last
\* update, and every window is in non-decreasing timestamp order.
C4_WindowBoundsAndOrder ==
    /\ Len(telemetry_history) <= HistoryCap
    /\ NoneOlderThanWindowAge(battery_history)
    /\ NoneOlderThanWindowAge(speed_history)
    /\ NoneOlderThanWindowAge(tire_history)
    /\ NonDecreasing(battery_history)
    /\ NonDecreasing(speed_history)
    /\ NonDecreasing(tire_history)
    /\ NonDecreasing(telemetry_history)

\* both evictions have happened: the full history is at its cap after
\* receiving more than 300 records, and the battery window has lost a
\* sample to age while keeping two
C4_Witness ==
    /\ Len(telemetry_history) = HistoryCap
    /\ n_hydrated + n_updates > HistoryCap
    /\ Len(battery_history) >= 2
    /\ Len(battery_history) < n_updates

\* the last entry of every window is the record derived from the snapshot
WindowsHoldSnapshot ==
    /\ battery_history # <<>> /\ speed_history # <<>>
    /\ tire_history # <<>> /\ telemetry_history # <<>>
    /\ LET t == battery_history[Len(battery_history)].timestamp
       IN  /\ battery_history[Len(battery_history)] = BatterySample(telemetry, t)
           /\ speed_history[Len(speed_history)] = SpeedSample(telemetry, t)
           /\ tire_history[Len(tire_history)] = TireSample(telemetry, t)
    /\ telemetry_history[Len(telemetry_history)] = HistoryRecord(telemetry)

\* C7: whatever a reader task can observe between the steps of the tick
\* loop and of the external-feed writers is all-or-nothing: once an update
\* has replaced the snapshot every window ends with the record derived from
\* it, the three age windows hold samples of the same updates, and before
\* the first update no window holds a record of the snapshot.
C7_UpdateAllOrNothing ==
    /\ Stamps(battery_history) = Stamps(speed_history)
    /\ Stamps(speed_history) = Stamps(tire_history)
    /\ n_updates >= 1 => WindowsHoldSnapshot
    /\ n_updates = 0 =>
          /\ battery_history = <<>> /\ speed_history = <<>> /\ tire_history = <<>>
          /\ Len(telemetry_history) = n_hydrated

\* ticks and an external feed have both written to the store
C7_Witness ==
    /\ run_ticks >= 1
    /\ n_updates > run_ticks
    /\ Len(battery_history) >= 2
    /\ WindowsHoldSnapshot

----------------------------------------------------------------------------
(* Claims about the simulator's lifecycle *)

\* a start() call that found the simulator Stopped runs in this step
StartsFromStopped == ~_running /\ _running'

\* a stop() call that found the simulator Running returns in this step:
\* one suspended at its await resumes, or one that had nothing to await
\* runs from its first line to its last
StopReturns == (stops' # stops /\ stops' \subseteq stops) \/ (_running /\ ~_running' /\ stops' = stops)

\* the ticks of the run that the returning stop() call was asked to stop
TicksOfStoppedRun ==
    IF stops' # stops THEN (CHOOSE call \in stops \ stops' : TRUE).called_at
    ELSE run_ticks

\* C8: start() from Stopped makes the simulator Running with tick counter 0
\* in the simulator and in the store's mirror and schedules a loop task;
\* a stop() of a Running simulator leaves it Stopped when it returns and
\* reports the ticks performed since the start of the run it stopped.
C8_StartStopTransitions ==
    [][ /\ StartsFromStopped =>
              /\ _tick_count' = 0
              /\ simulation'.running /\ simulation'.tick_count = 0
              /\ Len(tasks') = Len(tasks) + 1
              /\ _task' = Len(tasks') /\ tasks'[_task'].st = "ready"
        /\ StopReturns =>
              /\ ~_running' /\ ~simulation'.running
              /\ ret'.call = "stop" /\ ~ret'.status.running
              /\ ret'.status.tick_count = TicksOfStoppedRun ]_vars

\* C9: once stop() has returned, and until start() is called again, the
\* tick counter does not increase; and the step in which stop() returns
\* leaves the snapshot, the four windows and the alert buffer unchanged.
C9_NoTickAfterStopReturned ==
    [][ /\ ret.call = "stop" => ~(_tick_count' > _tick_count)
        /\ StopReturns => UNCHANGED <<telemetry, window_vars, alerts>> ]_vars

\* a redundant start() returns in this step (it found _running set)
RedundantStart == _running /\ ret' # ret /\ ret'.call = "start"
\* a redundant stop() returns in this step (it found _running clear)
RedundantStop == ~_running /\ ret' # ret /\ ret'.call = "stop" /\ stops' = stops

\* C10: start() while Running returns running=true with the current tick
\* count, stop() while Stopped returns running=false with the current tick
\* count, and neither changes the simulator's flag, counter, variant or
\* task, nor anything in the store.
C10_RedundantCallsAreNoOps ==
    [][ /\ RedundantStart =>
              /\ ret'.status.running /\ ret'.status.tick_count = _tick_count
              /\ UNCHANGED <<store_vars, sim_vars>>
        /\ RedundantStop =>
              /\ ~ret'.status.running /\ ret'.status.tick_count = _tick_count
              /\ UNCHANGED <<store_vars, sim_vars>> ]_vars

\* start() was called on a running simulator that had already ticked
C10_Witness ==
    /\ ret.call = "start"
    /\ ret.status.message = <<"Simulator already running">>
    /\ ret.status.tick_count >= 1
    /\ _running /\ _tick_count = ret.status.tick_count

----------------------------------------------------------------------------
(* Claims about persistence and the store's writers *)

\* the snapshot and the four windows are those an update with tel at time
\* t leaves in memory
UpdateApplied(tel, t) ==
    /\ telemetry' = tel
    /\ battery_history' = AgeFilter(Append(battery_history, BatterySample(tel, t)), t)
    /\ speed_history' = AgeFilter(Append(speed_history, SpeedSample(tel, t)), t)
    /\ tire_history' = AgeFilter(Append(tire_history, TireSample(tel, t)), t)
    /\ telemetry_history' = CountTrim(Append(telemetry_history, HistoryRecord(tel)))

\* a tick with the draws c has run in full: update, every alert of the
\* analysis offered to the buffer, counter mirrored, loop asleep for 1 s
TickApplied(c) ==
    LET tel == _generate_telemetry(phys, _tick_count + 1, _variant, c, now').tel
    IN  /\ UpdateApplied(tel, now')
        /\ alerts' = add_alerts(alerts, analyze(tel, battery_history', speed_history'))
        /\ simulation'.tick_count = _tick_count'
        /\ \E t \in 1..Len(tasks) :
              /\ tasks[t].st # "done"
              /\ tasks'[t].st = "sleeping" /\ tasks'[t].wake_at = now' + 1

\* C11: whatever the outcome of the saves, no exception leaves the store,
\* the tick loop goes on, and the snapshot, the windows and the alert
\* buffer after a tick or a feed are those of the in-memory update alone.
C11_PersistFailureNotObservable ==
    [][ /\ ~escaped'
        /\ _tick_count' = _tick_count + 1 => \E c \in TickDraws : TickApplied(c)
        /\ (n_updates' = n_updates + 1 /\ _tick_count' = _tick_count) =>
              /\ \E data \in ExternalFeeds :
                    UpdateApplied(MergeFeed(data, telemetry, now), now)
              /\ alerts' = alerts ]_vars

\* saves of a snapshot and of an accepted alert have failed, and the loop
\* has ticked twice and sleeps
C11_Witness ==
    /\ ~escaped
    /\ telemetry_log < n_hydrated + n_updates
    /\ alert_log < Len(accepted)
    /\ run_ticks >= 2
    /\ _task # 0
    /\ tasks[_task].st = "sleeping"
    /\ Len(battery_history) = n_updates

\* the snapshot or a window differs after the step
StoreWritten == <<telemetry, window_vars>>' # <<telemetry, window_vars>>

\* the step is an external injection: the feed route or a UDP datagram
FeedApplied ==
    /\ _tick_count' = _tick_count
    /\ \E data \in ExternalFeeds : UpdateApplied(MergeFeed(data, telemetry, now), now)

\* the step is a reset of the store
ResetApplied ==
    /\ _tick_count' = _tick_count
    /\ telemetry' = mock_telemetry(now)
    /\ battery_history' = <<>> /\ speed_history' = <<>>
    /\ tire_history' = <<>> /\ telemetry_history' = <<>>

\* C12 (as amended): every change to the snapshot or to a window is made by
\* a simulator tick, by an external snapshot injection or by reset();
\* nothing else writes them.
C12_WritersAreTickFeedReset ==
    [][ StoreWritten =>
          \/ _tick_count' = _tick_count + 1 /\ \E c \in TickDraws : TickApplied(c)
          \/ FeedApplied
          \/ ResetApplied ]_vars

\* after ticks of an EV run, the snapshot in the store is one written by
\* the external feed
C12_Witness ==
    /\ run_ticks >= 1
    /\ _tick_count = run_ticks
    /\ n_updates > run_ticks
    /\ telemetry.speed = 420
    /\ telemetry.engine_status = "running"
    /\ speed_history[Len(speed_history)].speed = 420

\* C12 as stated: every change to the snapshot or to a window is made by
\* a simulator tick.
C12_TickIsSoleWriter ==
    [][ StoreWritten => _tick_count' = _tick_count + 1 ]_vars

----------------------------------------------------------------------------
(* Claims about the analyzer *)

\* what analyze returns for the store's snapshot and windows
Analysis == analyze(telemetry, battery_history, speed_history)

\* the alerts of a list with the given type and signal
AlertsOf(found, alert_type, signal) ==
    SelectSeq(found, LAMBDA a : a.alert_type = alert_type /\ a.signal = signal)

\* the tires: signal id and pressure in the snapshot
TireSignals ==
    { <<"tire_pressure_fl", telemetry.tires.front_left>>,
      <<"tire_pressure_fr", telemetry.tires.front_right>>,
      <<"tire_pressure_rl", telemetry.tires.rear_left>>,
      <<"tire_pressure_rr", telemetry.tires.rear_right>> }

\* C13: for each tire independently, analyze returns exactly one critical
\* tire_pressure_low alert naming the tire when its pressure is below 25.0,
\* and none naming it when its pressure is 25.0 or more.
C13_OneTireAlertPerLowTire ==
    \A tire \in TireSignals :
        LET mine == AlertsOf(Analysis, "tire_pressure_low", tire[1])
        IN  IF tire[2] < TirePressureMin
            THEN Len(mine) = 1 /\ mine[1].severity = "critical"
            ELSE mine = <<>>

\* a snapshot with two tires just below 25.0 and two at 25.0
C13_Witness ==
    /\ n_updates >= 1
    /\ telemetry.tires.front_left = TirePressureMin - 1
    /\ telemetry.tires.rear_right = TirePressureMin - 1
    /\ telemetry.tires.front_right = TirePressureMin
    /\ telemetry.tires.rear_left = TirePressureMin
    /\ Len(SelectSeq(Analysis, LAMBDA a : a.alert_type = "tire_pressure_low")) = 2

\* the n most recent samples of the speed window all exceed 100 km/h
LastAllHigh(n) ==
    /\ Len(speed_history) >= n
    /\ \A i \in (Len(speed_history) - n + 1)..Len(speed_history) :
          speed_history[i].speed > HighSpeedMin

\* C14: analyze produces exactly one high_speed_stress warning when the
\* speed window holds at least 10 samples and the 10 most recent are all
\* above 100 km/h, and none otherwise (fewer than 10 samples, or one of the
\* 10 most recent at 100 or less).
C14_HighSpeedNeedsTenHighs ==
    LET high == SelectSeq(Analysis, LAMBDA a : a.alert_type = "high_speed_stress")
    IN  IF LastAllHigh(HighSpeedSamples)
        THEN Len(high) = 1 /\ high[1].severity = "warning" /\ high[1].signal = "speed"
        ELSE high = <<>>

\* eleven samples: one at 100 km/h, then ten above it, and the warning
C14_Witness ==
    /\ Len(speed_history) = 11
    /\ speed_history[1].speed = HighSpeedMin
    /\ LastAllHigh(HighSpeedSamples)
    /\ Len(AlertsOf(Analysis, "high_speed_stress", "speed")) = 1

----------------------------------------------------------------------------
(* Claims about injected snapshots and reset *)

\* an external injection runs in this step
FeedStep == n_updates' = n_updates + 1 /\ _tick_count' = _tick_count

\* C16: an injection that provides only the speed makes the new snapshot
\* equal to the prior one in every field other than speed (and the time
\* stamp): battery, tires, drivetrain, EV status, GPS, odometer, engine
\* status and variant keep their prior values.
C16_SpeedOnlyFeedKeepsOtherFields ==
    [][ FeedStep =>
          telemetry' = [telemetry EXCEPT !.speed = SpeedOnlyFeed.speed[1],
                                         !.timestamp = now] ]_vars

\* DataStore.reset runs in this step
ResetStep ==
    /\ now' = now
    /\ UNCHANGED <<_running, _tick_count>>
    /\ battery_history' = <<>>

\* C17: reset() re-initializes the store in full: the windows and the alert
\* buffer are empty, the snapshot is the default snapshot, the mirrored
\* simulation state is the default, and the vehicle variant set before the
\* reset is no longer observable.
C17_ResetRestoresInitialStore ==
    [][ ResetStep =>
          /\ alerts' = <<>>
          /\ speed_history' = <<>> /\ tire_history' = <<>> /\ telemetry_history' = <<>>
          /\ telemetry' = mock_telemetry(now)
          /\ simulation' = DefaultSimulationStatus
          /\ vehicle_variant' = "EV" ]_vars

----------------------------------------------------------------------------
(* Claims about the vehicle variant *)

\* C18: every start("EV") leaves the battery at the EV initial level, the
\* level of a freshly constructed simulator, whatever earlier runs did to it.
C18_StartEvBeginsWithFullBattery ==
    [][ StartsFromStopped /\ _variant' = "EV" =>
          phys'.battery_soc = InitialPhys.battery_soc ]_vars

HybridRun == Upper(_variant) = "HYBRID"
TickStep == _tick_count' = _tick_count + 1

\* C19: on every tick of a run started with "Hybrid" the state of charge
\* falls by no more than the Hybrid rule allows (drain plus burst) and the
\* snapshot's state of charge is at least the Hybrid floor of 15%.
C19_HybridRuleAndFloor ==
    [][ HybridRun /\ TickStep =>
          /\ phys.battery_soc - phys'.battery_soc <= HybridMaxDrain + HybridMaxDrop
          /\ phys'.battery_soc >= HybridFloor
          /\ telemetry'.battery.soc >= HybridFloor \div 10 ]_vars

VariantNames == {"EV", "Hybrid", "ICE"}

\* C20: whatever string start() is given, the simulator's variant, the
\* store's vehicle variant and the variant of the current snapshot are each
\* one of EV, Hybrid, ICE.
C20_VariantAlwaysKnown ==
    /\ _variant \in VariantNames
    /\ vehicle_variant \in VariantNames
    /\ telemetry.vehicle_variant \in VariantNames

----------------------------------------------------------------------------
(* Claims about the generated values *)

TireValues(tel) ==
    {tel.tires.front_left, tel.tires.front_right,
     tel.tires.rear_left, tel.tires.rear_right}

InRange(x, lo, hi) == x >= lo /\ x <= hi

----------------------------------------------------------------------------
(* Claims about the predictive engine *)

Socs == [i \in 1..Len(battery_history) |-> battery_history[i].soc]
StrictlyDecreasing(f) == \A i \in 1..(Len(f) - 1) : f[i] > f[i + 1]
NonDecreasingSeq(f) == \A i \in 1..(Len(f) - 1) : f[i] <= f[i + 1]

\* C23: on a battery window of at least 10 samples, a strictly decreasing
\* series gives a prediction whose predicted value is below the current
\* value and whose time horizon is not negative; a constant or
\* non-decreasing series gives the stable result: horizon 0, confidence 0.5,
\* predicted value equal to the current value.
C23_BatteryPredictionShape ==
    Len(battery_history) >= PredictMin =>
        LET p == predict_battery_depletion(battery_history)
        IN  /\ p # NoneValue
            /\ StrictlyDecreasing(Socs) =>
                  /\ p[1].predicted_value < p[1].current_value
                  /\ p[1].time_horizon_seconds >= 0
            /\ NonDecreasingSeq(Socs) =>
                  p[1] = StablePrediction(Socs[Len(Socs)])

Report == generate_predictive_report(battery_history, tire_history, speed_history)

----------------------------------------------------------------------------
(* Claims about the tick loop, the analyzer's rules and the mirror *)

\* a loop task has ended in this step
TaskEnded ==
    \E t \in 1..Len(tasks) : tasks[t].st # "done" /\ tasks'[t].st = "done"

\* C25: under every interleaving of start, stop, the loop tasks and the
\* external feed, a step that counts a tick is the whole tick: the snapshot
\* is stored, the analysis reads the windows that already hold its samples,
\* every alert of the analysis is offered to the buffer and the counter is
\* mirrored; a loop that is cancelled or exits leaves the store as it was.
C25_TickIsWholeAndOrdered ==
    [][ /\ TickStep => TickApplied(Calm) /\ WindowsHoldSnapshot'
        /\ TaskEnded => UNCHANGED <<telemetry, alerts, window_vars>> ]_vars

\* a stop() is in progress and the last tick, which stored an alert, is
\* applied in full
C25_Witness ==
    /\ stops # {}
    /\ run_ticks >= 1
    /\ alerts # <<>>
    /\ alerts[Len(alerts)].timestamp = telemetry.timestamp
    /\ WindowsHoldSnapshot

\* the (type, signal, severity) of each rule whose own condition holds for
\* the snapshot tel and the windows it is analyzed with
Satisfied(tel, batt_hist, spd_hist) ==
    { <<"tire_pressure_low", tire[1], "critical">> :
        tire \in { x \in { <<"tire_pressure_fl", tel.tires.front_left>>,
                           <<"tire_pressure_fr", tel.tires.front_right>>,
                           <<"tire_pressure_rl", tel.tires.rear_left>>,
                           <<"tire_pressure_rr", tel.tires.rear_right>> } :
                     x[2] < TirePressureMin } }
    \cup (IF Len(batt_hist) >= 2 /\ batt_hist[1].soc - tel.battery.soc > BatteryDropMax
          THEN {<<"battery_degradation", "battery_soc", "critical">>} ELSE {})
    \cup (IF /\ Len(spd_hist) >= HighSpeedSamples
             /\ \A i \in (Len(spd_hist) - HighSpeedSamples + 1)..Len(spd_hist) :
                   spd_hist[i].speed > HighSpeedMin
          THEN {<<"high_speed_stress", "speed", "warning">>} ELSE {})
    \cup (IF tel.drivetrain.brake_position > HarshBrakeMin
          THEN {<<"harsh_braking", "brake_position", "warning">>} ELSE {})
    \cup (IF /\ tel.drivetrain.throttle_position > HarshThrottleMin
             /\ Len(spd_hist) >= HarshAccelSamples
          THEN {<<"harsh_acceleration", "throttle_position", "warning">>} ELSE {})
    \cup (IF tel.ev_status.ev_range < EvRangeMin
          THEN {<<"low_ev_range", "ev_range", "warning">>} ELSE {})

\* C26: the analysis of a tick returns exactly one alert per rule whose own
\* condition holds, with that rule's severity, whatever the other
\* conditions; the alerts of one tick have distinct (type, signal) keys, and
\* each of them that is 10 s or more from every stored alert of its key is
\* in the buffer after the tick (while the buffer is below its cap).
C26_RulesAreIndependent ==
    [][ TickStep =>
          /\ { <<TickAlerts[i].alert_type, TickAlerts[i].signal, TickAlerts[i].severity>> :
                 i \in 1..Len(TickAlerts) }
               = Satisfied(telemetry', battery_history', speed_history')
          /\ \A i, j \in 1..Len(TickAlerts) :
                i # j => ~SameKey(TickAlerts[i], TickAlerts[j])
          /\ Len(alerts) + Len(TickAlerts) <= AlertCap =>
                \A i \in 1..Len(TickAlerts) :
                    FarFromStored(alerts, TickAlerts[i]) =>
                        \E k \in 1..Len(alerts') : alerts'[k] = TickAlerts[i] ]_vars

\* one tick has stored four alerts: two low tires, harsh braking and low
\* range
C26_Witness ==
    LET mine == SelectSeq(alerts, LAMBDA a : a.timestamp = telemetry.timestamp)
    IN  /\ run_ticks >= 2
        /\ telemetry.timestamp > 0
        /\ { <<mine[i].alert_type, mine[i].signal>> : i \in 1..Len(mine) }
             = { <<"tire_pressure_low", "tire_pressure_fl">>,
                 <<"tire_pressure_low", "tire_pressure_fr">>,
                 <<"harsh_braking", "brake_position">>,
                 <<"low_ev_range", "ev_range">> }

\* C27: whenever no stop() call is in progress, the store's mirrored
\* simulation state has the simulator's running flag and tick counter,
\* after any sequence of start, tick, external feed and reset.
C27_MirrorMatchesSimulator ==
    stops = {} =>
        /\ simulation.running = _running
        /\ simulation.tick_count = _tick_count

\* a high_speed_stress alert has been appended to the buffer
HighSpeedStored ==
    \E i \in 1..Len(accepted) : accepted[i].alert_type = "high_speed_stress"

\* C28: a simulator that is started and left running eventually stores a
\* high_speed_stress alert, and does so no later than tick 59, whatever the
\* draws.
C28_HighSpeedAlertByTick59 == <>(HighSpeedStored /\ _tick_count <= 59)

\* the alert is stored on tick 59 itself: the speed was low up to tick 49
C28_Witness ==
    /\ _tick_count = 59
    /\ HighSpeedStored
    /\ \A i \in 1..Len(accepted) :
          accepted[i].alert_type = "high_speed_stress"
              => accepted[i].timestamp = telemetry.timestamp

\* the loop tasks that will still run an iteration: not ended, and with no
\* cancellation pending
LiveLoops ==
    {t \in 1..Len(tasks) : tasks[t].st # "done" /\ ~tasks[t].must_cancel}

\* C29: under every interleaving of start() and stop() calls at most one loop
\* task is live, and whenever the simulator is running its task handle is
\* that live loop, so that a later stop() cancels it.
C29_AtMostOneLiveLoop ==
    /\ Cardinality(LiveLoops) <= 1
    /\ _running => _task \in LiveLoops

\* a tick of a run whose variant is ICE
IceTick == TickStep /\ _variant = "ICE"

\* the tick stores a low_ev_range alert
StoresLowRange ==
    \E i \in (Len(accepted) + 1)..Len(accepted') :
        accepted'[i].alert_type = "low_ev_range"

\* every low_ev_range alert in the buffer is 10 s or more older than the
\* snapshot of the tick
TenSecondsPassed ==
    \A i \in 1..Len(alerts) :
        alerts[i].alert_type = "low_ev_range"
            => telemetry'.timestamp - alerts[i].timestamp >= DedupWindow

\* what every ICE tick produces: range 0, charge of 90 or more, and the
\* low_ev_range warning from the analysis
IceSnapshot ==
    /\ telemetry'.ev_status.ev_range = 0
    /\ telemetry'.battery.soc >= 900
    /\ \E i \in 1..Len(analyze(telemetry', battery_history', speed_history')) :
          LET a == analyze(telemetry', battery_history', speed_history')[i]
          IN  a.alert_type = "low_ev_range" /\ a.severity = "warning"

\* C30: every ICE tick has range 0 and charge of 90 or more and its analysis
\* returns a low_ev_range warning; the store accepts one on the first ICE tick
\* and on every tick at which 10 s have passed since the last stored one.
C30_IceLowRangeFromFirstTick ==
    [][IceTick => /\ IceSnapshot
                  /\ (_tick_count' = 1 \/ TenSecondsPassed) => StoresLowRange]_vars

\* C30 as the code has it: the store accepts the alert of an ICE tick, the first
\* one included, exactly when no low_ev_range alert in the buffer is less than
\* 10 s older than the tick's snapshot.
C30_IceLowRangeEveryTenSeconds ==
    [][IceTick => /\ IceSnapshot
                  /\ StoresLowRange <=> TenSecondsPassed]_vars

\* an ICE run whose alert was dropped 9 s after the stored one and stored again
\* at exactly 10 s, on the tick just made
C30_Witness ==
    /\ _variant = "ICE"
    /\ _tick_count = 3
    /\ telemetry.ev_status.ev_range = 0
    /\ Len(accepted) >= 2
    /\ accepted[Len(accepted)].alert_type = "low_ev_range"
    /\ accepted[Len(accepted)].timestamp = telemetry.timestamp
    /\ \E i \in 1..(Len(accepted) - 1) :
          /\ accepted[i].alert_type = "low_ev_range"
          /\ accepted[i].timestamp = telemetry.timestamp - DedupWindow

====
